---- MODULE Spec2Model ----
(***************************************************************************)
(* mdbook-split: the preprocessor that splits every top-level chapter of a *)
(* book at its h1 headings (src/src/lib.rs).                               *)
(*                                                                         *)
(* Three specifications share the definitions below:                      *)
(*   Spec        Split::run over a book of several nodes;                  *)
(*   SpecSplit   Split::run over a book of one chapter, the chapter drawn  *)
(*               from every markdown document of up to MaxBlocks blocks;   *)
(*   SpecChapter to_chapter applied to an arbitrary run of events.         *)
(*                                                                         *)
(* The markdown parser (pulldown_cmark) and the serializer                 *)
(* (pulldown_cmark_to_cmark) are libraries.  A chapter's markdown content  *)
(* is represented by its block structure, Parser flattens it into the      *)
(* event stream the library produces for it, and Render writes events back *)
(* as text.  Whether the serializer fails is decided by the environment:   *)
(* fail_at names the call of cmark that fails (0: none does).              *)
(***************************************************************************)
EXTENDS Integers, Sequences, FiniteSets, TLC

VARIABLES
    book,        \* Split::run: the sections of the input book
    idx,         \* Split::run: index in book of the item the for loop takes next
    new_book,    \* Split::run: the sections of new_book
    result,      \* Split::run: the value returned, [tag |-> "None"] while running
    parser,      \* split_chapter: the events of the chapter being split
    pos,         \* split_chapter: number of events the for loop has consumed
    chapters,    \* split_chapter: the local vector chapters
    events,      \* split_chapter: the local vector events (the open run)
    runs,        \* split_chapter: the runs handed to to_chapter so far, in order
    fail_at,     \* environment: the call of cmark that returns an error, 0 for none
    cmark_calls, \* environment: number of calls of cmark so far
    pc           \* position: "run", "scan", "ret", "done"; "call", "built"

vars == <<book, idx, new_book, result, parser, pos, chapters, events, runs,
          fail_at, cmark_calls, pc>>

-----------------------------------------------------------------------------
(* Bounds *)

MaxBlocks == 4

MaxNodes == 3

MaxRun == 3

MaxFailAt == 3

BoundedSeq(S, n) == UNION {[1..k -> S] : k \in 0..n}

-----------------------------------------------------------------------------
(* Events: pulldown_cmark::Event, the variants and tags the documents use *)

StartHeading(l) == [kind |-> "Start", tag |-> "Heading", level |-> l, text |-> ""]

EndHeading(l) == [kind |-> "End", tag |-> "Heading", level |-> l, text |-> ""]

StartTag(t) == [kind |-> "Start", tag |-> t, level |-> 0, text |-> ""]

EndTag(t) == [kind |-> "End", tag |-> t, level |-> 0, text |-> ""]

Text(s) == [kind |-> "Text", tag |-> "", level |-> 0, text |-> s]

Code(s) == [kind |-> "Code", tag |-> "", level |-> 0, text |-> s]

(* Markdown content: a sequence of blocks, each a heading of some level or a
   paragraph, holding inline elements. *)
Heading(l, inl) == [block |-> "Heading", level |-> l, inlines |-> inl]

Paragraph(inl) == [block |-> "Paragraph", level |-> 0, inlines |-> inl]

InText(s) == [inline |-> "Text", text |-> s]

InCode(s) == [inline |-> "Code", text |-> s]

InEmph(s) == [inline |-> "Emphasis", text |-> s]

RECURSIVE Flatten(_)
Flatten(ss) == IF ss = <<>> THEN <<>> ELSE Head(ss) \o Flatten(Tail(ss))

InlineEvents(i) ==
    CASE i.inline = "Text" -> <<Text(i.text)>>
      [] i.inline = "Code" -> <<Code(i.text)>>
      [] i.inline = "Emphasis" ->
            <<StartTag("Emphasis"), Text(i.text), EndTag("Emphasis")>>

BlockEvents(b) ==
    LET inner == Flatten([k \in DOMAIN b.inlines |-> InlineEvents(b.inlines[k])])
    IN  IF b.block = "Heading"
        THEN <<StartHeading(b.level)>> \o inner \o <<EndHeading(b.level)>>
        ELSE <<StartTag("Paragraph")>> \o inner \o <<EndTag("Paragraph")>>

(* pulldown_cmark::Parser::new_ext(&chapter.content, options), collected *)
Parser(content) == Flatten([k \in DOMAIN content |-> BlockEvents(content[k])])

-----------------------------------------------------------------------------
(* is_h1 *)

(* variant of is_h1: a heading start of any level *)
is_h1_any_level(event) == event.kind = "Start" /\ event.tag = "Heading"

is_h1(event) == event.kind = "Start" /\ event.tag = "Heading" /\ event.level = 1

-----------------------------------------------------------------------------
(* to_cmark: the text cmark writes for a run of events *)

Hashes(l) == IF l = 1 THEN "# " ELSE "## "

RenderEvent(e) ==
    CASE e.kind = "Text" -> e.text
      [] e.kind = "Code" -> "'" \o e.text \o "'"  \* a code span, its backquotes written '
      [] e.kind = "Start" /\ e.tag = "Heading" -> Hashes(e.level)
      [] e.kind = "End" /\ e.tag = "Heading" -> "\n"
      [] e.kind = "Start" /\ e.tag = "Paragraph" -> ""
      [] e.kind = "End" /\ e.tag = "Paragraph" -> "\n"
      [] e.tag = "Emphasis" -> "*"

RECURSIVE Render(_)
Render(evs) == IF evs = <<>> THEN "" ELSE RenderEvent(Head(evs)) \o Render(Tail(evs))

Ok(v) == [tag |-> "Ok", val |-> v]

Err == [tag |-> "Err"]

to_cmark(evs) == IF cmark_calls + 1 = fail_at THEN Err ELSE Ok(Render(evs))

-----------------------------------------------------------------------------
(* to_chapter *)

None == <<>>

Some(v) == <<v>>

(* sha2::Sha256 of the name, written as lowercase hex: the digests of the
   names the documents can produce; any other string gets a placeholder that
   differs for different strings. *)
Sha256Hex(s) ==
    CASE s = "" -> "e3b0c44298fc1c149afbf4c8996fb92427ae41e4649b934ca495991b7852b855"
      [] s = "Chapter 1" -> "3178a647e0f2bcd284eaa96aab1750e61d3211c14aa60f2b45b6bdd27da6a159"
      [] s = "Chapter 2" -> "11012a8623e958a2b46fc910d209280c789328566b5ab5b3652c71c1ccf7b4fb"
      [] s = "Nested" -> "a5e4744f2cd80948a0fb55a8d1dc32775cf271ed3cf7796311969fd3f22c4e44"
      [] OTHER -> "sha256:" \o s

(* events.windows(2) *)
Windows2(evs) == [i \in 1..(Len(evs) - 1) |-> <<evs[i], evs[i + 1]>>]

(* .find_map(|window| is_h1(&window[0]).then_some(&window[1])) *)
FindMapH1(ws) ==
    LET hits == {i \in DOMAIN ws : is_h1(ws[i][1])}
    IN  IF hits = {} THEN None
        ELSE Some(ws[CHOOSE i \in hits : \A j \in hits : i <= j][2])

(* variant of ChapterName: the text of a code span is taken as well *)
ChapterName_code_as_title(evs) ==
    LET found == FindMapH1(Windows2(evs))
    IN  IF found = None THEN ""
        ELSE IF found[1].kind \in {"Text", "Code"} THEN found[1].text ELSE ""

(* let name = ... .and_then(Text => Some, _ => None).unwrap_or_default() *)
ChapterName(evs) ==
    LET found == FindMapH1(Windows2(evs))
    IN  IF found = None THEN ""
        ELSE IF found[1].kind = "Text" THEN found[1].text ELSE ""

(* Chapter { name, path: Some(..), content, ..Default::default() } *)
NewChapter(name, path, content) ==
    [kind |-> "Chapter", name |-> name, content |-> content, number |-> None,
     sub_items |-> <<>>, path |-> Some(path), source_path |-> None,
     parent_names |-> <<>>]

(* variant of to_chapter: the digest is taken of the content *)
to_chapter_hash_content(evs) ==
    LET name == ChapterName(evs)
        content == to_cmark(evs)
    IN  IF content.tag = "Err" THEN Err
        ELSE Ok(NewChapter(name, Sha256Hex(content.val), content.val))

to_chapter(evs) ==
    LET name == ChapterName(evs)
        content == to_cmark(evs)
    IN  IF content.tag = "Err" THEN Err
        ELSE Ok(NewChapter(name, Sha256Hex(name), content.val))

-----------------------------------------------------------------------------
(* The book: mdbook::book::BookItem *)

Separator == [kind |-> "Separator"]

PartTitle(title) == [kind |-> "PartTitle", title |-> title]

(* The fields of a source chapter other than name and content *)
DefaultMeta ==
    [number |-> None, sub_items |-> <<>>, path |-> None, source_path |-> None,
     parent_names |-> <<>>]

NestedChapter ==
    [kind |-> "Chapter", name |-> "Nested",
     content |-> <<Heading(1, <<InText("Nested")>>)>>, number |-> Some(<<1, 1>>),
     sub_items |-> <<>>, path |-> Some("nested.md"),
     source_path |-> Some("nested.md"), parent_names |-> <<"Chapter 1">>]

RichMeta ==
    [number |-> Some(<<1>>), sub_items |-> <<NestedChapter>>,
     path |-> Some("chapter_1.md"), source_path |-> Some("chapter_1.md"),
     parent_names |-> <<"Part I">>]

SourceChapter(content, meta) ==
    [kind |-> "Chapter", name |-> "Chapter 1", content |-> content,
     number |-> meta.number, sub_items |-> meta.sub_items, path |-> meta.path,
     source_path |-> meta.source_path, parent_names |-> meta.parent_names]

H1(s) == Heading(1, <<InText(s)>>)

Para(s) == Paragraph(<<InText(s)>>)

(* Blocks the documents of SpecSplit are made of *)
BlockAlphabet ==
    {Heading(1, <<>>), H1("Chapter 1"), H1("Chapter 2"),
     Heading(1, <<InCode("Chapter 1")>>), Heading(1, <<InEmph("Chapter 1")>>),
     Heading(2, <<InText("Chapter 1")>>), Para("Chapter 1")}

(* Events the runs of SpecChapter are made of *)
EventAlphabet ==
    {StartHeading(1), StartHeading(2), EndHeading(1), Text("Chapter 1"),
     Text("Chapter 2"), Code("Chapter 1"), StartTag("Emphasis")}

(* Nodes the books of Spec are made of: the chapter of the repository's test,
   an empty chapter, one with leading content, one with text after its
   heading, and the two other kinds of item. *)
BookChapters ==
    {SourceChapter(<<H1("Chapter 1"), H1("Chapter 2")>>, RichMeta),
     SourceChapter(<<>>, RichMeta),
     SourceChapter(<<Para("Chapter 1"), H1("Chapter 1")>>, DefaultMeta),
     SourceChapter(<<H1("Chapter 1"), Para("Chapter 2")>>, DefaultMeta),
     SourceChapter(<<Heading(1, <<InCode("Chapter 1")>>)>>, RichMeta)}

BookNodes == BookChapters \cup {Separator, PartTitle("Part I")}

-----------------------------------------------------------------------------
(* split_chapter *)

(* variant of Finish: without && !events.is_empty() *)
Finish_without_empty_check(event, evs) == is_h1(event)

(* let finish = is_h1(&event) && !events.is_empty(); *)
Finish(event, evs) == is_h1(event) /\ evs # <<>>

(* variant of FlushNeeded: the open run is flushed even when empty *)
FlushNeeded_always(evs) == TRUE

(* if !events.is_empty() *)
FlushNeeded(evs) == evs # <<>>

(* Book::push_item *)
push_item(sections, item) == Append(sections, item)

(* Split::run calls split_chapter(chapter): its locals are set up *)
RunChapter ==
    /\ pc = "run"
    /\ idx <= Len(book)
    /\ book[idx].kind = "Chapter"
    /\ parser' = Parser(book[idx].content)
    /\ pos' = 0
    /\ chapters' = <<>>
    /\ events' = <<>>
    /\ runs' = <<>>
    /\ pc' = "scan"
    /\ UNCHANGED <<book, idx, new_book, result, fail_at, cmark_calls>>

(* for event in parser, else branch: events.push(event) *)
ScanPush ==
    /\ pc = "scan"
    /\ pos < Len(parser)
    /\ ~Finish(parser[pos + 1], events)
    /\ events' = Append(events, parser[pos + 1])
    /\ pos' = pos + 1
    /\ UNCHANGED <<book, idx, new_book, result, parser, chapters, runs, fail_at,
                   cmark_calls, pc>>

(* variant of ScanFinish: the chapter is put in front of chapters *)
ScanFinish_prepends ==
    /\ pc = "scan"
    /\ pos < Len(parser)
    /\ Finish(parser[pos + 1], events)
    /\ to_chapter(events).tag = "Ok"
    /\ chapters' = <<to_chapter(events).val>> \o chapters
    /\ runs' = <<events>> \o runs
    /\ cmark_calls' = cmark_calls + 1
    /\ events' = <<parser[pos + 1]>>
    /\ pos' = pos + 1
    /\ UNCHANGED <<book, idx, new_book, result, parser, fail_at, pc>>

(* variant of ScanFinish: events = vec![] *)
ScanFinish_loses_heading ==
    /\ pc = "scan"
    /\ pos < Len(parser)
    /\ Finish(parser[pos + 1], events)
    /\ to_chapter(events).tag = "Ok"
    /\ chapters' = Append(chapters, to_chapter(events).val)
    /\ runs' = Append(runs, events)
    /\ cmark_calls' = cmark_calls + 1
    /\ events' = <<>>
    /\ pos' = pos + 1
    /\ UNCHANGED <<book, idx, new_book, result, parser, fail_at, pc>>

(* for event in parser, finish: chapters.push(to_chapter(events)?) succeeds;
   events = vec![event] *)
ScanFinish ==
    /\ pc = "scan"
    /\ pos < Len(parser)
    /\ Finish(parser[pos + 1], events)
    /\ to_chapter(events).tag = "Ok"
    /\ chapters' = Append(chapters, to_chapter(events).val)
    /\ runs' = Append(runs, events)
    /\ cmark_calls' = cmark_calls + 1
    /\ events' = <<parser[pos + 1]>>
    /\ pos' = pos + 1
    /\ UNCHANGED <<book, idx, new_book, result, parser, fail_at, pc>>

(* for event in parser, finish: to_chapter(events)? is an error, which
   split_chapter returns and Split::run returns in turn *)
ScanFinishErr ==
    /\ pc = "scan"
    /\ pos < Len(parser)
    /\ Finish(parser[pos + 1], events)
    /\ to_chapter(events).tag = "Err"
    /\ runs' = Append(runs, events)
    /\ cmark_calls' = cmark_calls + 1
    /\ events' = <<>>
    /\ result' = Err
    /\ pc' = "done"
    /\ UNCHANGED <<book, idx, new_book, parser, pos, chapters, fail_at>>

(* after the loop: the open run is not empty and to_chapter(events)? succeeds *)
EndFlush ==
    /\ pc = "scan"
    /\ pos = Len(parser)
    /\ FlushNeeded(events)
    /\ to_chapter(events).tag = "Ok"
    /\ chapters' = Append(chapters, to_chapter(events).val)
    /\ runs' = Append(runs, events)
    /\ cmark_calls' = cmark_calls + 1
    /\ events' = <<>>
    /\ pc' = "ret"
    /\ UNCHANGED <<book, idx, new_book, result, parser, pos, fail_at>>

(* variant of EndFlushErr: Split::run skips the chapter and goes on *)
EndFlushErr_skips_chapter ==
    /\ pc = "scan"
    /\ pos = Len(parser)
    /\ FlushNeeded(events)
    /\ to_chapter(events).tag = "Err"
    /\ runs' = Append(runs, events)
    /\ cmark_calls' = cmark_calls + 1
    /\ events' = <<>>
    /\ idx' = idx + 1
    /\ pc' = "run"
    /\ UNCHANGED <<book, new_book, result, parser, pos, chapters, fail_at>>

(* after the loop: the open run is not empty and to_chapter(events)? is an
   error, which split_chapter returns and Split::run returns in turn *)
EndFlushErr ==
    /\ pc = "scan"
    /\ pos = Len(parser)
    /\ FlushNeeded(events)
    /\ to_chapter(events).tag = "Err"
    /\ runs' = Append(runs, events)
    /\ cmark_calls' = cmark_calls + 1
    /\ events' = <<>>
    /\ result' = Err
    /\ pc' = "done"
    /\ UNCHANGED <<book, idx, new_book, parser, pos, chapters, fail_at>>

(* after the loop: the open run is empty; Ok(chapters) *)
EndEmpty ==
    /\ pc = "scan"
    /\ pos = Len(parser)
    /\ ~FlushNeeded(events)
    /\ pc' = "ret"
    /\ UNCHANGED <<book, idx, new_book, result, parser, pos, chapters, events,
                   runs, fail_at, cmark_calls>>

-----------------------------------------------------------------------------
(* Split::run *)

RECURSIVE PushAll(_, _)
PushAll(sections, items) ==
    IF items = <<>> THEN sections
    ELSE PushAll(push_item(sections, Head(items)), Tail(items))

(* variant of Splice: number and sub_items of the source chapter are kept *)
Splice_keeps_source_fields ==
    /\ pc = "ret"
    /\ new_book' = PushAll(new_book,
            [k \in DOMAIN chapters |->
                [chapters[k] EXCEPT !.number = book[idx].number,
                                    !.sub_items = book[idx].sub_items]])
    /\ idx' = idx + 1
    /\ pc' = "run"
    /\ UNCHANGED <<book, result, parser, pos, chapters, events, runs, fail_at,
                   cmark_calls>>

(* for item in split_chapter(chapter)? { new_book.push_item(item); } *)
Splice ==
    /\ pc = "ret"
    /\ new_book' = PushAll(new_book, chapters)
    /\ idx' = idx + 1
    /\ pc' = "run"
    /\ UNCHANGED <<book, result, parser, pos, chapters, events, runs, fail_at,
                   cmark_calls>>

(* variant of RunSeparator: nothing is pushed *)
RunSeparator_dropped ==
    /\ pc = "run"
    /\ idx <= Len(book)
    /\ book[idx].kind = "Separator"
    /\ idx' = idx + 1
    /\ UNCHANGED <<book, new_book, result, parser, pos, chapters, events, runs,
                   fail_at, cmark_calls, pc>>

(* BookItem::Separator => new_book.push_item(BookItem::Separator) *)
RunSeparator ==
    /\ pc = "run"
    /\ idx <= Len(book)
    /\ book[idx].kind = "Separator"
    /\ new_book' = push_item(new_book, Separator)
    /\ idx' = idx + 1
    /\ UNCHANGED <<book, result, parser, pos, chapters, events, runs, fail_at,
                   cmark_calls, pc>>

(* BookItem::PartTitle(title) => new_book.push_item(BookItem::PartTitle(title)) *)
RunPartTitle ==
    /\ pc = "run"
    /\ idx <= Len(book)
    /\ book[idx].kind = "PartTitle"
    /\ new_book' = push_item(new_book, PartTitle(book[idx].title))
    /\ idx' = idx + 1
    /\ UNCHANGED <<book, result, parser, pos, chapters, events, runs, fail_at,
                   cmark_calls, pc>>

(* the loop over book.sections is over: Ok(new_book) *)
RunReturn ==
    /\ pc = "run"
    /\ idx > Len(book)
    /\ result' = Ok(new_book)
    /\ pc' = "done"
    /\ UNCHANGED <<book, idx, new_book, parser, pos, chapters, events, runs,
                   fail_at, cmark_calls>>

(* to_chapter(events) on its own, for a run of any shape *)
BuildChapter ==
    /\ pc = "call"
    /\ result' = to_chapter(events)
    /\ runs' = Append(runs, events)
    /\ cmark_calls' = cmark_calls + 1
    /\ pc' = "built"
    /\ UNCHANGED <<book, idx, new_book, parser, pos, chapters, events, fail_at>>

-----------------------------------------------------------------------------
(* Specifications *)

InitLocals ==
    /\ idx = 1
    /\ new_book = <<>>
    /\ result = [tag |-> "None"]
    /\ parser = <<>>
    /\ pos = 0
    /\ chapters = <<>>
    /\ runs = <<>>
    /\ cmark_calls = 0
    /\ fail_at \in 0..MaxFailAt

Init ==
    /\ book \in BoundedSeq(BookNodes, MaxNodes)
    /\ events = <<>>
    /\ pc = "run"
    /\ InitLocals

InitSplit ==
    /\ book \in {<<SourceChapter(d, DefaultMeta)>> : d \in BoundedSeq(BlockAlphabet, MaxBlocks)}
    /\ events = <<>>
    /\ pc = "run"
    /\ InitLocals

InitChapter ==
    /\ book = <<>>
    /\ events \in BoundedSeq(EventAlphabet, MaxRun)
    /\ pc = "call"
    /\ InitLocals

split_chapter ==
    \/ ScanPush
    \/ ScanFinish
    \/ ScanFinishErr
    \/ EndFlush
    \/ EndFlushErr
    \/ EndEmpty

Next ==
    \/ RunChapter
    \/ split_chapter
    \/ Splice
    \/ RunSeparator
    \/ RunPartTitle
    \/ RunReturn

NextSplit ==
    \/ RunChapter
    \/ split_chapter
    \/ Splice
    \/ RunReturn

NextChapter == BuildChapter

Spec == Init /\ [][Next]_vars

SpecSplit == InitSplit /\ [][NextSplit]_vars

SpecChapter == InitChapter /\ [][NextChapter]_vars

-----------------------------------------------------------------------------
(* Vocabulary of the properties *)

IsLevel1HeadingStart(e) == e.kind = "Start" /\ e.tag = "Heading" /\ e.level = 1

H1Positions(evs) == {i \in 1..Len(evs) : IsLevel1HeadingStart(evs[i])}

(* the position of the k-th level-1 heading start of evs *)
KthH1(evs, k) ==
    CHOOSE p \in H1Positions(evs) : Cardinality({q \in H1Positions(evs) : q < p}) = k - 1

(* the title the first level-1 heading start of a run gives it *)
ExpectedTitle(run) ==
    IF H1Positions(run) = {} THEN ""
    ELSE LET p == CHOOSE q \in H1Positions(run) : \A r \in H1Positions(run) : q <= r
         IN  IF p < Len(run) /\ run[p + 1].kind = "Text" THEN run[p + 1].text
             ELSE ""

(* the places where a run starts: the first event, and every later level-1
   heading start *)
RunStarts(evs) ==
    IF evs = <<>> THEN {} ELSE {1} \cup {p \in H1Positions(evs) : p > 1}

NumRuns(evs) == Cardinality(RunStarts(evs))

(* the k-th run of evs: from its start to just before the next start *)
ExpectedRun(evs, k) ==
    LET S == RunStarts(evs)
        from == CHOOSE p \in S : Cardinality({q \in S : q < p}) = k - 1
        later == {q \in S : q > from}
        to == IF later = {} THEN Len(evs)
              ELSE (CHOOSE q \in later : \A r \in later : q <= r) - 1
    IN  SubSeq(evs, from, to)

ExpectedChapter(run) ==
    NewChapter(ExpectedTitle(run), Sha256Hex(ExpectedTitle(run)), Render(run))

Expansion(item) ==
    CASE item.kind = "Separator" -> <<Separator>>
      [] item.kind = "PartTitle" -> <<PartTitle(item.title)>>
      [] item.kind = "Chapter" ->
            [k \in 1..NumRuns(Parser(item.content)) |->
                ExpectedChapter(ExpectedRun(Parser(item.content), k))]

RECURSIVE SumLen(_, _)
SumLen(ss, n) == IF n = 0 THEN 0 ELSE Len(ss[n]) + SumLen(ss, n - 1)

ChapterIndexes(sections) == {i \in DOMAIN sections : sections[i].kind = "Chapter"}

RECURSIVE TotalRuns(_)
TotalRuns(sections) ==
    IF sections = <<>> THEN 0
    ELSE (IF Head(sections).kind = "Chapter"
          THEN NumRuns(Parser(Head(sections).content)) ELSE 0)
         + TotalRuns(Tail(sections))

CmarkFailed == fail_at \in 1..cmark_calls

Returned == pc = "ret"

Succeeded == pc = "done" /\ result.tag = "Ok"

-----------------------------------------------------------------------------
(* C1: when split_chapter returns the chapters of a document with N >= 1
   level-1 heading starts, there are N of them if the document's first event
   is a level-1 heading start and N + 1 otherwise, the extra first one with
   the empty title; the k-th heading's chapter is the k-th of those that
   start with a heading: its run starts at that heading and it carries that
   heading's title. *)
C1_ChapterCount ==
    Returned /\ H1Positions(parser) # {} =>
        LET N == Cardinality(H1Positions(parser))
            lead == IF IsLevel1HeadingStart(parser[1]) THEN 0 ELSE 1
        IN  /\ Len(chapters) = N + lead
            /\ Len(runs) = N + lead
            /\ lead = 1 => chapters[1].name = ""
            /\ \A k \in 1..N :
                /\ 1 + SumLen(runs, k + lead - 1) = KthH1(parser, k)
                /\ chapters[k + lead].name =
                       ExpectedTitle(SubSeq(parser, KthH1(parser, k),
                           IF KthH1(parser, k) < Len(parser)
                           THEN KthH1(parser, k) + 1 ELSE Len(parser)))

C1_Witness ==
    /\ Returned
    /\ Cardinality(H1Positions(parser)) = 2
    /\ ~IsLevel1HeadingStart(parser[1])
    /\ Len(chapters) = 3
    /\ chapters[2].name = "Chapter 1"
    /\ chapters[3].name = "Chapter 2"

(* C2, as stated: a document without a level-1 heading start yields exactly
   one chapter, its run the whole event sequence, its title empty. *)
C2_Original ==
    Returned /\ H1Positions(parser) = {} =>
        /\ Len(chapters) = 1
        /\ runs = <<parser>>
        /\ chapters[1].name = ""

(* C2, amended: a document without a level-1 heading start whose event
   sequence is not empty yields exactly one chapter, its run the whole event
   sequence, its title empty; a document whose event sequence is empty
   yields no chapter. *)
C2_NoHeading ==
    /\ Returned /\ H1Positions(parser) = {} /\ parser # <<>> =>
        /\ Len(chapters) = 1
        /\ runs = <<parser>>
        /\ chapters[1].name = ""
    /\ Returned /\ parser = <<>> => chapters = <<>> /\ runs = <<>>

C2_Witness ==
    /\ Returned
    /\ H1Positions(parser) = {}
    /\ Len(parser) > 3
    /\ Len(chapters) = 1
    /\ \E i \in 1..Len(parser) : parser[i] = StartHeading(2)

(* C3: the title to_chapter gives a run is the text of the event right after
   the run's first level-1 heading start when that event is a Text event,
   and the empty string in every other case; a later heading never supplies
   it. *)
C3_Title ==
    pc = "built" /\ result.tag = "Ok" => result.val.name = ExpectedTitle(events)

C3_Witness ==
    /\ pc = "built"
    /\ result.tag = "Ok"
    /\ events = <<StartHeading(1), StartHeading(1), Text("Chapter 2")>>
    /\ result.val.name = ""

(* C4: the path of every emitted chapter is the digest of its title, so any
   two emitted chapters with equal titles have equal paths, whatever their
   content, position and source document. *)
C4_PathFromTitle ==
    /\ \A i \in ChapterIndexes(new_book) :
           new_book[i].path = Some(Sha256Hex(new_book[i].name))
    /\ \A i, j \in ChapterIndexes(new_book) :
           new_book[i].name = new_book[j].name => new_book[i].path = new_book[j].path

C4_Witness ==
    /\ Succeeded
    /\ Len(book) = 2
    /\ Len(new_book) = 3
    /\ ChapterIndexes(new_book) = {1, 2, 3}
    /\ new_book[1].name = "Chapter 1"
    /\ new_book[3].name = "Chapter 1"
    /\ new_book[1].content # new_book[3].content
    /\ new_book[1].path = new_book[3].path

(* C5: the tree Split::run returns is the concatenation, in order, of the
   expansions of the input nodes: a Separator gives one Separator, a
   PartTitle one PartTitle with the same text, a Document the chapters of
   its runs in order. *)
C5_Expansion ==
    Succeeded => result.val = Flatten([i \in DOMAIN book |-> Expansion(book[i])])

C5_Witness ==
    /\ Succeeded
    /\ Len(book) = 3
    /\ book[1].kind = "Chapter"
    /\ book[2].kind = "PartTitle"
    /\ book[3].kind = "Chapter"
    /\ Len(result.val) = 5
    /\ result.val[3] = PartTitle("Part I")

(* C6: as soon as a serialization fails Split::run has returned an error,
   which carries no tree; it returns a tree only when every run of every
   document has been serialized, each successfully. *)
C6_NoPartialSuccess ==
    /\ CmarkFailed => pc = "done" /\ result = Err
    /\ result.tag = "Ok" => ~CmarkFailed /\ cmark_calls = TotalRuns(book)
    /\ pc = "done" => result.tag \in {"Ok", "Err"}

C6_Witness ==
    /\ pc = "done"
    /\ result = Err
    /\ idx = 2
    /\ Len(new_book) = 1
    /\ Len(chapters) = 1
    /\ Len(runs) = 2

(* C7: every chapter of the output has a path and has number, source_path,
   parent_names and sub_items at their defaults, whatever the source
   document carried; no nested chapter of a source document is in the
   output. *)
C7_OnlyThreeFields ==
    \A i \in ChapterIndexes(new_book) :
        /\ DOMAIN new_book[i] = {"kind", "name", "content", "number", "sub_items",
                                 "path", "source_path", "parent_names"}
        /\ new_book[i].path # None
        /\ new_book[i].number = None
        /\ new_book[i].source_path = None
        /\ new_book[i].parent_names = <<>>
        /\ new_book[i].sub_items = <<>>
        /\ new_book[i].name # NestedChapter.name

C7_Witness ==
    /\ Succeeded
    /\ Len(book) = 2
    /\ book[1].kind = "Chapter"
    /\ book[1].sub_items = <<NestedChapter>>
    /\ book[1].number # None
    /\ book[2].kind = "Chapter"
    /\ book[2].path = None
    /\ Len(result.val) = 4

(* C8: every run handed to to_chapter is non-empty and holds at most one
   level-1 heading start, at its first place; every run but the first of a
   document begins with a level-1 heading start. *)
C8_RunShape ==
    \A k \in DOMAIN runs :
        /\ runs[k] # <<>>
        /\ H1Positions(runs[k]) \subseteq {1}
        /\ k > 1 => IsLevel1HeadingStart(runs[k][1])

C8_Witness ==
    /\ Returned
    /\ Len(runs) = 2
    /\ IsLevel1HeadingStart(parser[1])
    /\ \E i \in 1..Len(runs[1]) : runs[1][i] = StartHeading(2)

(* C9: at every step of the scan the closed runs, concatenated in order and
   followed by the open run, are the events consumed so far; when
   split_chapter returns its chapters the closed runs concatenated are the
   whole event sequence. *)
C9_Partition ==
    /\ pc \in {"scan", "ret", "done"} =>
           Flatten(runs) \o events = SubSeq(parser, 1, pos)
    /\ Returned => Flatten(runs) = parser

C9_Witness ==
    /\ Returned
    /\ Len(runs) = 3
    /\ Len(parser) > 6
    /\ Flatten(runs) = parser

(* C10: the tree Split::run returns has one chapter per run of every input
   document, none for a document whose event sequence is empty, so its
   length is the number of Separator and PartTitle input nodes plus the
   number of runs of all input documents. *)
C10_OutputLength ==
    Succeeded =>
        /\ Cardinality(ChapterIndexes(result.val)) = TotalRuns(book)
        /\ Len(result.val) =
               Cardinality(DOMAIN book \ ChapterIndexes(book)) + TotalRuns(book)

C10_Witness ==
    /\ Succeeded
    /\ Len(book) = 3
    /\ book[1].kind = "Chapter"
    /\ book[1].content = <<>>
    /\ book[2].kind = "Separator"
    /\ book[3].kind = "Chapter"
    /\ result.val[1] = Separator
    /\ Len(result.val) = 3

====
